---------------------------- MODULE Spec2Model ----------------------------
(***************************************************************************)
(* Wallet-session and transaction orchestration of the App component       *)
(* (src/src/App.js; the render tree is taken from the complete revision     *)
(* src/unnamed/part_000, whose first 300 lines are identical).              *)
(*                                                                         *)
(* One step of the model is one synchronous run of JavaScript: an event    *)
(* handler up to its first await, or the continuation of an async function *)
(* from the resolution of one awaited promise up to the next await.        *)
(* Every async call in flight is an element of the bag ops; it carries the *)
(* values its closure captured at the render it was started from and its   *)
(* local variables.                                                        *)
(***************************************************************************)
EXTENDS Integers, Sequences, FiniteSets, Bags, TLC

(* ------------------------------ bounds -------------------------------- *)
\* async calls that may be in flight together
MaxOps == 2
\* user clicks and wallet-side changes (account switches, chain switches)
MaxEvents == 4

(* ----------------------- environment constants ------------------------ *)
\* parseInt(process.env.REACT_APP_CHAIN_ID)
CHAIN_ID == 56
\* some chain other than the configured one
OtherChain == CHAIN_ID + 1
Chains == {CHAIN_ID, OtherChain}

\* accounts the wallet can expose
Accounts == {"0xA1", "0xA2"}

\* a nullable JavaScript value: Null, or Some(v)
Null == <<>>
Some(v) == <<v>>
Get(x) == x[1]

\* switchError.code === 4902
UnknownChainCode == 4902

\* rejection of a provider request: an object with a code and a message
UserRejected == [code |-> 4001, message |-> "User rejected the request."]
InternalError == [code |-> -32603, message |-> ""]
SwitchRejected == [code |-> 4001, message |-> "User rejected the chain switch."]
UnknownChain == [code |-> UnknownChainCode, message |-> "Unrecognized chain ID."]
RpcErrors == {UserRejected, InternalError}
SwitchErrors == {SwitchRejected, InternalError, UnknownChain}

\* entries of a connectWallet run's log
ChainMatch == "chain:match"
ChainMismatch == "chain:mismatch"
SwitchRequest == "wallet_switchEthereumChain"
AddRequest == "wallet_addEthereumChain"
Resolved == "resolved"
Rejected(code) == "rejected:" \o ToString(code)

\* errors ethers rejects a contract call, a transaction or a wait with
ActionRejected == [code |-> "ACTION_REJECTED", message |-> "user rejected action"]
CallException == [code |-> "CALL_EXCEPTION", message |-> "execution reverted"]
InsufficientFunds == [code |-> "INSUFFICIENT_FUNDS", message |-> "insufficient funds for intrinsic transaction cost"]
SendErrors == {ActionRejected, CallException}
RegisterSendErrors == {ActionRejected, CallException, InsufficientFunds}
WaitErrors == {CallException}
\* throw new Error(message)
Thrown(message) == [code |-> "", message |-> message]

(* ---------------------------- messages -------------------------------- *)
ConfigMsg == "Missing environment configuration. Please check your .env file."
NoWalletMobileInitMsg == "Please open this app in a Web3 wallet browser (MetaMask, SafePal, Trust Wallet, etc.) or use WalletConnect."
NoWalletMobileMsg == "Please open this app in a Web3 wallet browser (MetaMask, SafePal, Trust Wallet, etc.)"
NoWalletDesktopMsg == "No Web3 wallet extension detected. Please install MetaMask, SafePal, or another Web3 wallet extension."
NoAccountsMsg == "No accounts found. Please unlock your wallet."
ConnectFallbackMsg == "Failed to connect wallet"
NotConnectedMsg == "Wallet not connected"
ApproveFallbackMsg == "Failed to approve USDT"
NoContractMsg == "Contract not initialized"
UpgradeFallbackMsg == "Failed to upgrade"
WithdrawFallbackMsg == "Failed to withdraw"
NoSignerAccountMsg == "unknown account #0"
RevertedMsg == "transaction execution reverted"
NetworkFailMsg == "could not detect network"

\* err.message || fallback
MessageOr(message, fallback) == IF message = "" THEN fallback ELSE message

(* ------------------------------ state --------------------------------- *)
VARIABLES
    \* hosting environment
    configOK,        \* CONTRACT_ADDRESS and USDT_ADDRESS are both set
    isMobile,        \* the user agent matches the mobile pattern
    ethereum,        \* window.ethereum: Null, or the provider's capability flags
    walletAccount,   \* the account the wallet exposes (Null: none)
    walletChain,     \* the chain the wallet is on
    chainEvent,      \* a chainChanged notification is waiting to be delivered
    events,          \* clicks and wallet-side changes so far (bounded by MaxEvents)
    \* React state of App
    account, contract, signer, user, loading, error,
    walletAvailable, checkingWallet, deviceType, walletType,
    \* effects
    listening,       \* the accountsChanged / chainChanged listeners are registered
    initPc,          \* position of initializeApp
    attempts,        \* checkWalletAvailability's poll counter
    maxAttempts,     \* checkWalletAvailability's budget
    \* async calls in flight
    ops

env == <<configOK, isMobile, ethereum, walletAccount, walletChain, chainEvent, events>>
session == <<account, contract, signer, user>>
react == <<account, contract, signer, user, loading, error,
           walletAvailable, checkingWallet, deviceType, walletType>>
detector == <<initPc, attempts, maxAttempts>>
vars == <<configOK, isMobile, ethereum, walletAccount, walletChain, chainEvent, events,
          account, contract, signer, user, loading, error,
          walletAvailable, checkingWallet, deviceType, walletType,
          listening, initPc, attempts, maxAttempts, ops>>

(* -------------------------- injected provider ------------------------- *)
Flags(mm, sp, tr, cb) == [isMetaMask |-> mm, isSafePal |-> sp, isTrust |-> tr, isCoinbaseWallet |-> cb]
\* the providers the environment may inject in the main specification
Providers == {Flags(FALSE, TRUE, FALSE, FALSE)}

(* ------------------------- detectDeviceAndWallet ---------------------- *)
\* the label chosen for provider eth on a mobile / desktop user agent
MobileLabel(eth) ==
    IF eth.isMetaMask THEN "MetaMask Mobile"
    ELSE IF eth.isSafePal THEN "SafePal"
    ELSE IF eth.isTrust THEN "Trust Wallet"
    ELSE IF eth.isCoinbaseWallet THEN "Coinbase Wallet"
    ELSE "Mobile Wallet"

DesktopLabel(eth) ==
    IF eth.isMetaMask THEN "MetaMask"
    ELSE IF eth.isSafePal THEN "SafePal"
    ELSE "Web3 Wallet"

\* what one call leaves in deviceType and walletType (wt: walletType before
\* the call, kept when no provider is found) and what it returns
detectDeviceAndWallet(mobile, eth, wt) ==
    [deviceType |-> IF mobile THEN "mobile" ELSE "desktop",
     walletType |-> IF eth = Null THEN wt
                    ELSE IF mobile THEN Some(MobileLabel(Get(eth)))
                    ELSE Some(DesktopLabel(Get(eth))),
     found |-> eth # Null]

\* useState initial values
InitialDeviceType == "desktop"

\* the budget checkWalletAvailability computes from the deviceType it closes over
MobileAttempts == 20
DesktopAttempts == 50
AttemptBudget(dt) == IF dt = "mobile" THEN MobileAttempts ELSE DesktopAttempts

(* ------------------------------ handles ------------------------------- *)
\* provider.getSigner(): a signer for the account the wallet exposes
NewSigner(addr) == [address |-> addr]
\* new Contract(CONTRACT_ADDRESS, ABI, signer)
NewContract(sgn) == [target |-> "CONTRACT_ADDRESS", runner |-> sgn]

(* --------------------------- async calls ------------------------------ *)
\* kind: the async function; pc: the await it is suspended at; signer,
\* contract: for connectWallet its locals, for the other calls the state
\* values its closure captured; address: connectWallet's local; log: what
\* connectWallet has seen of the chain and the wallet_* requests it has
\* issued, each followed by its answer; balance, referrer: locals of
\* checkUSDTStatus and register
NoOpFields ==
    [kind |-> "none", pc |-> "none",
     signer |-> Null, contract |-> Null,
     address |-> Null, log |-> <<>>,
     balance |-> Null, referrer |-> Null]

Mutating == {"approve", "register", "upgrade", "withdraw"}

OpSet == BagToSet(ops)
OpCount == BagCardinality(ops)
Put(o) == ops (+) SetToBag({o})
Replace(o, n) == (ops (-) SetToBag({o})) (+) SetToBag({n})
Drop(o) == ops (-) SetToBag({o})
EmptyOps == EmptyBag

RECURSIVE CopiesOf(_)
CopiesOf(S) ==
    IF S = {} THEN 0
    ELSE LET o == CHOOSE x \in S : TRUE
         IN CopiesIn(o, ops) + CopiesOf(S \ {o})
\* number of calls of the given kinds in flight
InFlight(kinds) == CopiesOf({o \in OpSet : o.kind \in kinds})

(* ------------------------- contract responses ------------------------- *)
\* token amounts are counted in tenths of a token (10^17 wei)
\* formatUnits(x, 18): the decimal string "<int>.<frac>"
formatUnits(x) == [int |-> x \div 10, frac |-> x % 10]

\* the id the contract has assigned (or would assign) to an address
IdOf(addr) == IF addr = "0xA1" THEN 1 ELSE 2

\* what getMyDetails() can resolve to for the address the handle signs for:
\* (id, wallet, level, balance, exists); referrerId and uplines are never read
Details(addr) ==
    {[id |-> 0, wallet |-> addr, level |-> 0, balance |-> 0, exists |-> FALSE],
     [id |-> IdOf(addr), wallet |-> addr, level |-> 2, balance |-> 105, exists |-> TRUE]}

\* the record loadUser stores for a resolved getMyDetails()
UserRecord(u) == [id |-> ToString(u.id), level |-> u.level, balance |-> formatUnits(u.balance)]

(* ------------------------------- Init --------------------------------- *)
\* the state of a freshly loaded page before its effects have run
PageLoaded ==
    /\ account = Null /\ contract = Null /\ signer = Null /\ user = Null
    /\ loading = FALSE /\ error = Null
    /\ walletAvailable = FALSE /\ checkingWallet = TRUE
    /\ deviceType = InitialDeviceType /\ walletType = Null
    /\ listening = FALSE /\ initPc = "mount"
    /\ attempts = 0 /\ maxAttempts = 0
    /\ ops = EmptyOps

Init ==
    /\ configOK \in BOOLEAN
    /\ isMobile \in BOOLEAN
    /\ ethereum \in {Null} \cup {Some(p) : p \in Providers}
    /\ walletAccount \in {Null, Some("0xA1")}
    /\ walletChain \in Chains
    /\ chainEvent = FALSE
    /\ events = 0
    /\ PageLoaded

\* window.location.reload(): the page, its state and its pending calls are
\* discarded and the component is constructed again
Reload ==
    /\ account' = Null /\ contract' = Null /\ signer' = Null /\ user' = Null
    /\ loading' = FALSE /\ error' = Null
    /\ walletAvailable' = FALSE /\ checkingWallet' = TRUE
    /\ deviceType' = InitialDeviceType /\ walletType' = Null
    /\ listening' = FALSE /\ initPc' = "mount"
    /\ attempts' = 0 /\ maxAttempts' = 0
    /\ ops' = EmptyOps

(* ----------------------- mount: the two effects ----------------------- *)
\* the error initializeApp shows when no wallet was found; dt is the
\* deviceType its closure holds
NoWalletInitMsg(dt) == IF dt = "mobile" THEN NoWalletMobileInitMsg ELSE NoWalletDesktopMsg

\* initializeApp up to its await (with the continuation when the immediate
\* check already resolves), then the listener registration
Mount ==
    /\ initPc = "mount"
    /\ listening' = (ethereum # Null)
    /\ IF ~configOK
       THEN /\ error' = Some(ConfigMsg)
            /\ checkingWallet' = FALSE
            /\ initPc' = "done"
            /\ UNCHANGED <<walletAvailable, deviceType, walletType, attempts, maxAttempts>>
       ELSE LET d == detectDeviceAndWallet(isMobile, ethereum, walletType) IN
            /\ deviceType' = d.deviceType
            /\ walletType' = d.walletType
            /\ IF d.found
               THEN /\ walletAvailable' = TRUE
                    /\ checkingWallet' = FALSE
                    /\ initPc' = "done"
                    /\ UNCHANGED <<attempts, maxAttempts>>
               ELSE /\ initPc' = "polling"
                    /\ attempts' = 0
                    /\ maxAttempts' = AttemptBudget(deviceType)
                    /\ UNCHANGED <<walletAvailable, checkingWallet>>
            /\ error' = error
    /\ UNCHANGED <<account, contract, signer, user, loading, ops>>
    /\ UNCHANGED env

\* a tick that gives up at the first poll that finds no provider
Poll_GivesUpEarly ==
    /\ initPc = "polling"
    /\ LET d == detectDeviceAndWallet(isMobile, ethereum, walletType) IN
       /\ deviceType' = d.deviceType
       /\ walletType' = d.walletType
       /\ walletAvailable' = d.found
       /\ checkingWallet' = FALSE
       /\ initPc' = "done"
       /\ attempts' = 0 /\ maxAttempts' = 0
       /\ error' = IF d.found THEN error ELSE Some(NoWalletInitMsg(InitialDeviceType))
    /\ UNCHANGED <<account, contract, signer, user, loading, listening, ops>>
    /\ UNCHANGED env

\* one tick of checkWalletAvailability's interval, with initializeApp's
\* continuation when the tick resolves the promise
Poll ==
    /\ initPc = "polling"
    /\ LET d == detectDeviceAndWallet(isMobile, ethereum, walletType) IN
       /\ deviceType' = d.deviceType
       /\ walletType' = d.walletType
       /\ IF d.found
          THEN /\ walletAvailable' = TRUE
               /\ checkingWallet' = FALSE
               /\ initPc' = "done"
               /\ attempts' = 0 /\ maxAttempts' = 0
               /\ error' = error
          ELSE IF attempts + 1 >= maxAttempts
          THEN /\ walletAvailable' = FALSE
               /\ checkingWallet' = FALSE
               /\ initPc' = "done"
               /\ attempts' = 0 /\ maxAttempts' = 0
               /\ error' = Some(NoWalletInitMsg(InitialDeviceType))
          ELSE /\ attempts' = attempts + 1
               /\ UNCHANGED <<walletAvailable, checkingWallet, initPc, maxAttempts, error>>
    /\ UNCHANGED <<account, contract, signer, user, loading, listening, ops>>
    /\ UNCHANGED env

\* the wallet extension injects window.ethereum after the page has loaded
InjectProvider ==
    /\ ethereum = Null
    /\ \E p \in Providers : ethereum' = Some(p)
    /\ UNCHANGED <<configOK, isMobile, walletAccount, walletChain, chainEvent, events>>
    /\ UNCHANGED react
    /\ UNCHANGED <<listening, ops>>
    /\ UNCHANGED detector

\* the "Refresh Page" button of the no-wallet view
ClickRefresh ==
    /\ ~checkingWallet /\ ~walletAvailable
    /\ events < MaxEvents
    /\ events' = events + 1
    /\ Reload
    /\ chainEvent' = FALSE
    /\ UNCHANGED <<configOK, isMobile, ethereum, walletAccount, walletChain>>

(* -------------------------- render: triggers -------------------------- *)
\* the branch of the render tree that holds the connect button
ConnectShown == ~checkingWallet /\ walletAvailable /\ account = Null
\* the branch that holds the action buttons
ActionsShown == ~checkingWallet /\ walletAvailable /\ account # Null
ConnectEnabled == ConnectShown /\ ~loading
ApproveEnabled == ActionsShown /\ ~loading
RegisterEnabled == ActionsShown /\ ~loading /\ user = Null
UpgradeEnabled == ActionsShown /\ ~loading /\ user # Null
WithdrawEnabled == ActionsShown /\ ~loading /\ user # Null
StatusEnabled == ActionsShown /\ ~loading

(* ---------------------------- connectWallet --------------------------- *)
NoWalletMsg(dt) == IF dt = "mobile" THEN NoWalletMobileMsg ELSE NoWalletDesktopMsg

\* connectWallet as it would be if it relied on the detector's result and
\* did not test window.ethereum
connectWalletStart_TrustsDetector(dt) ==
    /\ error' = Null
    /\ loading' = TRUE
    /\ ops' = Put([NoOpFields EXCEPT !.kind = "connect", !.pc = "eth_requestAccounts"])

\* connectWallet as it would be if it kept a signer it already holds and
\* went straight to the chain check
connectWalletStart_Reuse(dt) ==
    IF ethereum = Null
    THEN /\ error' = Some(NoWalletMsg(dt))
         /\ loading' = FALSE
         /\ ops' = ops
    ELSE /\ error' = Null
         /\ loading' = TRUE
         /\ IF signer # Null
            THEN ops' = Put([NoOpFields EXCEPT !.kind = "connect", !.pc = "getNetwork",
                                               !.signer = signer, !.address = account])
            ELSE ops' = Put([NoOpFields EXCEPT !.kind = "connect", !.pc = "eth_requestAccounts"])

\* connectWallet up to its first await; dt is the deviceType of the closure
\* it is called from
connectWalletStart(dt) ==
    IF ethereum = Null
    THEN /\ error' = Some(NoWalletMsg(dt))
         /\ loading' = FALSE
         /\ ops' = ops
    ELSE /\ error' = Null
         /\ loading' = TRUE
         /\ ops' = Put([NoOpFields EXCEPT !.kind = "connect", !.pc = "eth_requestAccounts"])

ClickConnect ==
    /\ ConnectEnabled
    /\ OpCount < MaxOps
    /\ connectWalletStart(deviceType)
    /\ UNCHANGED <<account, contract, signer, user, walletAvailable, checkingWallet, deviceType, walletType>>
    /\ UNCHANGED <<listening>>
    /\ UNCHANGED detector
    /\ events < MaxEvents
    /\ events' = events + 1
    /\ UNCHANGED <<configOK, isMobile, ethereum, walletAccount, walletChain, chainEvent>>

\* connectWallet's catch without its finally
connectWalletCatch_NoFinally(o, err) ==
    /\ error' = Some(MessageOr(err.message, ConnectFallbackMsg))
    /\ loading' = loading
    /\ ops' = Drop(o)
    /\ UNCHANGED <<account, contract, signer, user>>

\* catch and finally of connectWallet
connectWalletCatch(o, err) ==
    /\ error' = Some(MessageOr(err.message, ConnectFallbackMsg))
    /\ loading' = FALSE
    /\ ops' = Drop(o)
    /\ UNCHANGED <<account, contract, signer, user>>

\* lines 230-235 without setSigner(signer)
connectWalletEstablish_NoSigner(o, seen) ==
    /\ account' = o.address
    /\ contract' = Some(NewContract(Get(o.signer)))
    /\ signer' = signer
    /\ ops' = Replace(o, [o EXCEPT !.pc = "getMyDetails",
                                   !.contract = Some(NewContract(Get(o.signer))),
                                   !.log = o.log \o seen])
    /\ UNCHANGED <<user, loading, error>>

\* lines 230-235: the handle is built, the session is stored, loadUser is
\* called and suspends at getMyDetails(); seen: what the step adds to the log
connectWalletEstablish(o, seen) ==
    /\ account' = o.address
    /\ contract' = Some(NewContract(Get(o.signer)))
    /\ signer' = o.signer
    /\ ops' = Replace(o, [o EXCEPT !.pc = "getMyDetails",
                                   !.contract = Some(NewContract(Get(o.signer))),
                                   !.log = o.log \o seen])
    /\ UNCHANGED <<user, loading, error>>

\* lines 189-195 without the test of accounts.length
connectWalletAccounts_NoEmptyCheck(o, accounts) ==
    /\ ops' = Replace(o, [o EXCEPT !.pc = "getSigner"])
    /\ UNCHANGED <<account, contract, signer, user, loading, error>>

\* lines 189-195: what connectWallet does with the granted account list
connectWalletAccounts(o, accounts) ==
    IF Len(accounts) = 0
    THEN connectWalletCatch(o, Thrown(NoAccountsMsg))
    ELSE /\ ops' = Replace(o, [o EXCEPT !.pc = "getSigner"])
         /\ UNCHANGED <<account, contract, signer, user, loading, error>>

\* the account list the wallet grants
Granted == IF walletAccount = Null THEN <<>> ELSE <<Get(walletAccount)>>

\* eth_requestAccounts answers
ConnectAccounts ==
    \E o \in OpSet :
        /\ o.kind = "connect" /\ o.pc = "eth_requestAccounts"
        /\ \/ \E e \in RpcErrors : connectWalletCatch(o, e)
           \/ connectWalletAccounts(o, Granted)
        /\ UNCHANGED <<walletAvailable, checkingWallet, deviceType, walletType, listening>>
        /\ UNCHANGED detector
        /\ UNCHANGED env

\* provider.getSigner() answers; signer.getAddress() resolves from the
\* signer itself and getNetwork() is then awaited
ConnectSigner ==
    \E o \in OpSet :
        /\ o.kind = "connect" /\ o.pc = "getSigner"
        /\ \/ \E e \in RpcErrors : connectWalletCatch(o, e)
           \/ IF walletAccount = Null
              THEN connectWalletCatch(o, [message |-> NoSignerAccountMsg])
              ELSE /\ ops' = Replace(o, [o EXCEPT !.pc = "getNetwork",
                                                  !.signer = Some(NewSigner(Get(walletAccount))),
                                                  !.address = walletAccount])
                   /\ UNCHANGED <<account, contract, signer, user, loading, error>>
        /\ UNCHANGED <<walletAvailable, checkingWallet, deviceType, walletType, listening>>
        /\ UNCHANGED detector
        /\ UNCHANGED env

\* provider.getNetwork() answers: on the configured chain the session is
\* established, otherwise the switch request is issued
ConnectNetwork ==
    \E o \in OpSet :
        /\ o.kind = "connect" /\ o.pc = "getNetwork"
        /\ \/ connectWalletCatch(o, [message |-> NetworkFailMsg])
           \/ IF walletChain = CHAIN_ID
              THEN connectWalletEstablish(o, <<ChainMatch>>)
              ELSE /\ ops' = Replace(o, [o EXCEPT !.pc = SwitchRequest,
                                                  !.log = o.log \o <<ChainMismatch, SwitchRequest>>])
                   /\ UNCHANGED <<account, contract, signer, user, loading, error>>
        /\ UNCHANGED <<walletAvailable, checkingWallet, deviceType, walletType, listening>>
        /\ UNCHANGED detector
        /\ UNCHANGED env

\* a rejected switch request handled without looking at the error code
connectWalletSwitchError_AnyCode(o, switchError) ==
    /\ ops' = Replace(o, [o EXCEPT !.pc = AddRequest,
                                   !.log = o.log \o <<Rejected(switchError.code), AddRequest>>])
    /\ UNCHANGED <<account, contract, signer, user, loading, error>>

\* what connectWallet does with a rejected switch request
connectWalletSwitchError(o, switchError) ==
    IF switchError.code = UnknownChainCode
    THEN /\ ops' = Replace(o, [o EXCEPT !.pc = AddRequest,
                                        !.log = o.log \o <<Rejected(switchError.code), AddRequest>>])
         /\ UNCHANGED <<account, contract, signer, user, loading, error>>
    ELSE connectWalletCatch(o, switchError)

\* wallet_switchEthereumChain answers
ConnectSwitch ==
    \E o \in OpSet :
        /\ o.kind = "connect" /\ o.pc = SwitchRequest
        /\ \/ /\ \E e \in SwitchErrors : connectWalletSwitchError(o, e)
              /\ UNCHANGED <<walletChain, chainEvent>>
           \/ /\ walletChain' = CHAIN_ID
              /\ chainEvent' = (chainEvent \/ walletChain # CHAIN_ID)
              /\ connectWalletEstablish(o, <<Resolved>>)
        /\ UNCHANGED <<walletAvailable, checkingWallet, deviceType, walletType, listening>>
        /\ UNCHANGED detector
        /\ UNCHANGED <<configOK, isMobile, ethereum, walletAccount, events>>

\* wallet_addEthereumChain answers; the wallet may or may not move to the
\* chain it has just added
ConnectAdd ==
    \E o \in OpSet :
        /\ o.kind = "connect" /\ o.pc = AddRequest
        /\ \/ /\ \E e \in RpcErrors : connectWalletCatch(o, e)
              /\ UNCHANGED <<walletChain, chainEvent>>
           \/ /\ \E c \in {walletChain, CHAIN_ID} :
                    /\ walletChain' = c
                    /\ chainEvent' = (chainEvent \/ walletChain # c)
              /\ connectWalletEstablish(o, <<Resolved>>)
        /\ UNCHANGED <<walletAvailable, checkingWallet, deviceType, walletType, listening>>
        /\ UNCHANGED detector
        /\ UNCHANGED <<configOK, isMobile, ethereum, walletAccount, events>>

(* ------------------------------ loadUser ------------------------------ *)
\* loadUser without its try/catch: a rejected getMyDetails() reaches the
\* caller's catch
loadUser_Throws(o) ==
    /\ \/ /\ user' = user
          /\ error' = Some(ConnectFallbackMsg)
       \/ /\ \E u \in Details(Get(o.contract).runner.address) : user' = Some(UserRecord(u))
          /\ error' = error
    /\ loading' = FALSE
    /\ ops' = Drop(o)
    /\ UNCHANGED <<account, contract, signer>>

\* getMyDetails() of loadUser answers; loadUser stores the result and its
\* caller (connectWallet, register, upgrade, withdraw) runs its finally
loadUser(o) ==
    /\ \/ user' = Null
       \/ \E u \in Details(Get(o.contract).runner.address) : user' = Some(UserRecord(u))
    /\ loading' = FALSE
    /\ ops' = Drop(o)
    /\ UNCHANGED <<account, contract, signer, error>>

\* loadUser for one answer of getMyDetails(): Null when the call is rejected
loadUserAnswer(o, answer) ==
    /\ user' = IF answer = Null THEN Null ELSE Some(UserRecord(Get(answer)))
    /\ loading' = FALSE
    /\ ops' = Drop(o)
    /\ UNCHANGED <<account, contract, signer, error>>

LoadUserReturn ==
    \E o \in OpSet :
        /\ o.pc = "getMyDetails"
        /\ loadUser(o)
        /\ UNCHANGED <<walletAvailable, checkingWallet, deviceType, walletType, listening>>
        /\ UNCHANGED detector
        /\ UNCHANGED env

(* ------------------------- provider notifications --------------------- *)
\* handleAccountsChanged without setUser(null)
handleAccountsChanged_KeepsUser(accounts) ==
    IF Len(accounts) = 0
    THEN /\ account' = Null
         /\ contract' = Null
         /\ signer' = Null
         /\ user' = user
         /\ UNCHANGED <<loading, error, ops>>
    ELSE /\ connectWalletStart(InitialDeviceType)
         /\ UNCHANGED <<account, contract, signer, user>>

\* handleAccountsChanged(accounts), registered by the mount effect
handleAccountsChanged(accounts) ==
    IF Len(accounts) = 0
    THEN /\ account' = Null
         /\ contract' = Null
         /\ signer' = Null
         /\ user' = Null
         /\ UNCHANGED <<loading, error, ops>>
    ELSE /\ connectWalletStart(InitialDeviceType)
         /\ UNCHANGED <<account, contract, signer, user>>

\* the wallet exposes another account (or none) and notifies the page
AccountsChanged ==
    /\ ethereum # Null
    /\ events < MaxEvents
    /\ \E new \in ({Null} \cup {Some(a) : a \in Accounts}) \ {walletAccount} :
        /\ walletAccount' = new
        /\ IF listening
           THEN /\ (new # Null => OpCount < MaxOps)
                /\ handleAccountsChanged(new)
           ELSE UNCHANGED <<account, contract, signer, user, loading, error, ops>>
    /\ events' = events + 1
    /\ UNCHANGED <<walletAvailable, checkingWallet, deviceType, walletType, listening>>
    /\ UNCHANGED detector
    /\ UNCHANGED <<configOK, isMobile, ethereum, walletChain, chainEvent>>

\* the user moves the wallet to another chain
ChainSwitchedByUser ==
    /\ ethereum # Null
    /\ events < MaxEvents
    /\ \E c \in Chains \ {walletChain} : walletChain' = c
    /\ chainEvent' = TRUE
    /\ events' = events + 1
    /\ UNCHANGED <<configOK, isMobile, ethereum, walletAccount>>
    /\ UNCHANGED react
    /\ UNCHANGED <<listening, ops>>
    /\ UNCHANGED detector

\* handleChainChanged(chainId), registered by the mount effect
handleChainChanged ==
    IF listening
    THEN Reload
    ELSE /\ UNCHANGED react
         /\ UNCHANGED <<listening, ops>>
         /\ UNCHANGED detector

\* the provider emits the pending chainChanged notification
ChainChanged ==
    /\ chainEvent
    /\ chainEvent' = FALSE
    /\ handleChainChanged
    /\ UNCHANGED <<configOK, isMobile, ethereum, walletAccount, walletChain, events>>


(* ------------------------- upgrade and withdraw ----------------------- *)
FallbackMsg(kind) ==
    IF kind = "approve" THEN ApproveFallbackMsg
    ELSE IF kind = "upgrade" THEN UpgradeFallbackMsg
    ELSE WithdrawFallbackMsg

\* catch and finally of approveUSDT, upgrade and withdraw
actionCatch(o, err) ==
    /\ error' = Some(MessageOr(err.message, FallbackMsg(o.kind)))
    /\ loading' = FALSE
    /\ ops' = Drop(o)
    /\ UNCHANGED <<account, contract, signer, user>>

\* upgrade / withdraw without the test of contract
contractActionStart_NoCheck(kind) ==
    /\ error' = Null
    /\ loading' = TRUE
    /\ ops' = Put([NoOpFields EXCEPT !.kind = kind, !.pc = "send", !.contract = contract])
    /\ UNCHANGED <<account, contract, signer, user>>

\* upgrade / withdraw up to the first await
contractActionStart(kind) ==
    /\ IF contract = Null
       THEN /\ error' = Some(NoContractMsg)
            /\ loading' = FALSE
            /\ ops' = ops
       ELSE /\ error' = Null
            /\ loading' = TRUE
            /\ ops' = Put([NoOpFields EXCEPT !.kind = kind, !.pc = "send", !.contract = contract])
    /\ UNCHANGED <<account, contract, signer, user>>

upgrade == contractActionStart("upgrade")
withdraw == contractActionStart("withdraw")

ClickUpgrade ==
    /\ UpgradeEnabled
    /\ OpCount < MaxOps
    /\ upgrade
    /\ UNCHANGED <<walletAvailable, checkingWallet, deviceType, walletType, listening>>
    /\ UNCHANGED detector
    /\ events < MaxEvents
    /\ events' = events + 1
    /\ UNCHANGED <<configOK, isMobile, ethereum, walletAccount, walletChain, chainEvent>>

ClickWithdraw ==
    /\ WithdrawEnabled
    /\ OpCount < MaxOps
    /\ withdraw
    /\ UNCHANGED <<walletAvailable, checkingWallet, deviceType, walletType, listening>>
    /\ UNCHANGED detector
    /\ events < MaxEvents
    /\ events' = events + 1
    /\ UNCHANGED <<configOK, isMobile, ethereum, walletAccount, walletChain, chainEvent>>

\* contract.upgrade() / contract.withdraw() / usdt.approve() answers: the
\* transaction was submitted, or the call was rejected
ActionSend ==
    \E o \in OpSet :
        /\ o.kind \in {"approve", "upgrade", "withdraw"} /\ o.pc = "send"
        /\ \/ \E e \in SendErrors : actionCatch(o, e)
           \/ /\ ops' = Replace(o, [o EXCEPT !.pc = "wait"])
              /\ UNCHANGED <<account, contract, signer, user, loading, error>>
        /\ UNCHANGED <<walletAvailable, checkingWallet, deviceType, walletType, listening>>
        /\ UNCHANGED detector
        /\ UNCHANGED env

\* tx.wait() of upgrade / withdraw answers and the action ends without
\* calling loadUser
ActionWait_NoRefresh ==
    \E o \in OpSet :
        /\ o.kind \in {"upgrade", "withdraw"} /\ o.pc = "wait"
        /\ \/ \E e \in WaitErrors : actionCatch(o, e)
           \/ /\ loading' = FALSE
              /\ ops' = Drop(o)
              /\ UNCHANGED <<account, contract, signer, user, error>>
        /\ UNCHANGED <<walletAvailable, checkingWallet, deviceType, walletType, listening>>
        /\ UNCHANGED detector
        /\ UNCHANGED env

\* tx.wait() of upgrade / withdraw answers: on success loadUser is called
ActionWait ==
    \E o \in OpSet :
        /\ o.kind \in {"upgrade", "withdraw"} /\ o.pc = "wait"
        /\ \/ \E e \in WaitErrors : actionCatch(o, e)
           \/ /\ ops' = Replace(o, [o EXCEPT !.pc = "getMyDetails"])
              /\ UNCHANGED <<account, contract, signer, user, loading, error>>
        /\ UNCHANGED <<walletAvailable, checkingWallet, deviceType, walletType, listening>>
        /\ UNCHANGED detector
        /\ UNCHANGED env

(* ----------------------------- approveUSDT ---------------------------- *)
\* approveUSDT without the test of signer
approveUSDT_NoSignerCheck ==
    /\ error' = Null
    /\ loading' = TRUE
    /\ ops' = Put([NoOpFields EXCEPT !.kind = "approve", !.pc = "send", !.signer = signer])
    /\ UNCHANGED <<account, contract, signer, user>>

\* approveUSDT without setError(null)
approveUSDT_KeepsError ==
    /\ IF signer = Null
       THEN /\ error' = Some(NotConnectedMsg)
            /\ loading' = FALSE
            /\ ops' = ops
       ELSE /\ error' = error
            /\ loading' = TRUE
            /\ ops' = Put([NoOpFields EXCEPT !.kind = "approve", !.pc = "send", !.signer = signer])
    /\ UNCHANGED <<account, contract, signer, user>>

\* approveUSDT up to the first await
approveUSDT ==
    /\ IF signer = Null
       THEN /\ error' = Some(NotConnectedMsg)
            /\ loading' = FALSE
            /\ ops' = ops
       ELSE /\ error' = Null
            /\ loading' = TRUE
            /\ ops' = Put([NoOpFields EXCEPT !.kind = "approve", !.pc = "send", !.signer = signer])
    /\ UNCHANGED <<account, contract, signer, user>>

ClickApprove ==
    /\ ApproveEnabled
    /\ OpCount < MaxOps
    /\ approveUSDT
    /\ UNCHANGED <<walletAvailable, checkingWallet, deviceType, walletType, listening>>
    /\ UNCHANGED detector
    /\ events < MaxEvents
    /\ events' = events + 1
    /\ UNCHANGED <<configOK, isMobile, ethereum, walletAccount, walletChain, chainEvent>>

\* tx.wait() of approveUSDT answers
ApproveWait ==
    \E o \in OpSet :
        /\ o.kind = "approve" /\ o.pc = "wait"
        /\ \/ \E e \in WaitErrors : actionCatch(o, e)
           \/ /\ loading' = FALSE
              /\ ops' = Drop(o)
              /\ UNCHANGED <<account, contract, signer, user, error>>
        /\ UNCHANGED <<walletAvailable, checkingWallet, deviceType, walletType, listening>>
        /\ UNCHANGED detector
        /\ UNCHANGED env


(* --------------------------- checkUSDTStatus -------------------------- *)
\* balances and allowances the token contract may answer with (tenths)
Amounts == {90, 99, 100, 200}

\* parseFloat of a formatted amount, in tenths
parseFloat(str) == str.int * 10 + str.frac

\* a status query that raises the loading flag as the actions do
checkUSDTStatus_SetsLoading ==
    /\ IF signer = Null \/ account = Null
       THEN /\ ops' = ops
            /\ loading' = loading
       ELSE /\ ops' = Put([NoOpFields EXCEPT !.kind = "status", !.pc = "balanceOf", !.signer = signer])
            /\ loading' = TRUE
    /\ UNCHANGED <<account, contract, signer, user, error>>

\* checkUSDTStatus up to its first await, called on its own
checkUSDTStatus ==
    /\ IF signer = Null \/ account = Null
       THEN ops' = ops
       ELSE ops' = Put([NoOpFields EXCEPT !.kind = "status", !.pc = "balanceOf", !.signer = signer])
    /\ UNCHANGED <<account, contract, signer, user, loading, error>>

\* the "Check USDT Status" button
ClickStatus ==
    /\ StatusEnabled
    /\ OpCount < MaxOps
    /\ checkUSDTStatus
    /\ UNCHANGED <<walletAvailable, checkingWallet, deviceType, walletType>>
    /\ UNCHANGED <<listening>>
    /\ UNCHANGED detector
    /\ events < MaxEvents
    /\ events' = events + 1
    /\ UNCHANGED <<configOK, isMobile, ethereum, walletAccount, walletChain, chainEvent>>

\* balanceOf / allowance of the button's checkUSDTStatus answer; the result
\* is only shown in an alert
StatusAnswer ==
    \E o \in OpSet :
        /\ o.kind = "status"
        /\ \/ ops' = Drop(o)
           \/ /\ o.pc = "balanceOf"
              /\ ops' = Replace(o, [o EXCEPT !.pc = "allowance"])
        /\ UNCHANGED react
        /\ UNCHANGED <<listening>>
        /\ UNCHANGED detector
        /\ UNCHANGED env

(* ------------------------------ register ------------------------------ *)
LowBalanceMsg == "Insufficient USDT balance. You need at least 10 USDT to register"
LowAllowanceMsg == "Insufficient USDT allowance. Please approve more USDT (need at least 10 USDT allowance)"
AlreadyRegisteredMsg == "You are already registered with this wallet address"
InvalidFormatMsg == "Invalid referrer address format"
InvalidReferrerMsg == "Invalid referrer: The referrer address must be registered in the system first"
SimAllowanceMsg == "Insufficient USDT allowance. Please approve more USDT first"
SimBalanceMsg == "Insufficient USDT balance for registration"
SimFeeMsg == "Registration fee issue. Please ensure you have enough USDT balance and allowance"
CallExceptionMsg == "Transaction failed. Please check: 1) You have enough USDT balance, 2) You have approved enough USDT, 3) Your referrer is valid and registered, 4) You are not already registered"
GasFundsMsg == "Insufficient funds for gas fees. Please add more CURRENCY_SYMBOL to your wallet"
CancelledMsg == "Transaction was cancelled by user"

\* strings typed into the prompt are sequences of characters
Chars(c, n) == [i \in 1..n |-> c]
ZeroAddress == <<"0", "x">> \o Chars("0", 40)
HexDigits == {"0", "1", "2", "3", "4", "5", "6", "7", "8", "9",
              "a", "b", "c", "d", "e", "f", "A", "B", "C", "D", "E", "F"}
\* /^0x[a-fA-F0-9]{40}$/.test(str)
MatchesAddress(str) ==
    /\ Len(str) = 42
    /\ str[1] = "0" /\ str[2] = "x"
    /\ \A i \in 3..42 : str[i] \in HexDigits

\* what prompt() may return: <<>> stands for Cancel and for the empty string
PromptInputs ==
    {<<>>,
     ZeroAddress,
     <<"0", "x">> \o Chars("a", 39) \o <<"F">>,
     <<"0", "x">> \o Chars("a", 39),
     <<"0", "x">> \o Chars("a", 41),
     <<"0", "X">> \o Chars("a", 40),
     <<"0", "x">> \o Chars("a", 39) \o <<"g">>,
     Chars("a", 42)}

\* the keywords the revert message of a failed static call may contain
Keywords == {"already registered", "user exists", "referrer", "allowance", "balance", "fee", "amount"}
\* a failed static call: the keywords its lower-cased message contains, its
\* reason and its message
StaticError(K, r) == [keywords |-> K, reason |-> r, message |-> "execution reverted"]
\* the failures the contract answers a static call with in the main
\* specification
StaticErrors ==
    {StaticError({"already registered"}, ""),
     StaticError({"allowance", "amount"}, "ERC20: transfer amount exceeds allowance"),
     StaticError({}, "custom reason")}

\* the mapping of the gas-estimation revision: allowance and balance are
\* looked for before referrer
StaticCallMessage_OlderOrder(staticError) ==
    LET includes(k) == k \in staticError.keywords IN
    IF includes("already registered") \/ includes("user exists") THEN AlreadyRegisteredMsg
    ELSE IF includes("allowance") THEN SimAllowanceMsg
    ELSE IF includes("balance") THEN SimBalanceMsg
    ELSE IF includes("referrer") THEN InvalidReferrerMsg
    ELSE IF includes("fee") \/ includes("amount") THEN SimFeeMsg
    ELSE "Registration failed: " \o
         (IF staticError.reason # "" THEN staticError.reason
          ELSE IF staticError.message # "" THEN staticError.message
          ELSE "Unknown contract error")

\* the message register throws for a failed static call
StaticCallMessage(staticError) ==
    LET includes(k) == k \in staticError.keywords IN
    IF includes("already registered") \/ includes("user exists") THEN AlreadyRegisteredMsg
    ELSE IF includes("referrer") THEN InvalidReferrerMsg
    ELSE IF includes("allowance") THEN SimAllowanceMsg
    ELSE IF includes("balance") THEN SimBalanceMsg
    ELSE IF includes("fee") \/ includes("amount") THEN SimFeeMsg
    ELSE "Registration failed: " \o
         (IF staticError.reason # "" THEN staticError.reason
          ELSE IF staticError.message # "" THEN staticError.message
          ELSE "Unknown contract error")

\* the message register's catch stores
RegisterErrorMessage(err) ==
    IF err.code = "CALL_EXCEPTION" THEN CallExceptionMsg
    ELSE IF err.code = "INSUFFICIENT_FUNDS" THEN GasFundsMsg
    ELSE IF err.code = "USER_REJECTED" THEN CancelledMsg
    ELSE err.message

\* catch and finally of register; rest: the other calls in flight
registerCatch(rest, err) ==
    /\ error' = Some(RegisterErrorMessage(err))
    /\ loading' = FALSE
    /\ ops' = rest

\* register goes on to its next await; ld, er: loading and error as the
\* step leaves them
registerAwait(rest, o, ld, er) ==
    /\ ops' = rest (+) SetToBag({o})
    /\ loading' = ld
    /\ error' = er

\* lines 452-470: prompt, contract check, referrer validation, static call
registerPrompt(rest, o, ld, er) ==
    \E input \in PromptInputs :
        LET referrerAddress == IF input = <<>> THEN ZeroAddress ELSE input IN
        IF o.contract = Null
        THEN registerCatch(rest, Thrown(NoContractMsg))
        ELSE IF referrerAddress # ZeroAddress /\ ~MatchesAddress(referrerAddress)
        THEN registerCatch(rest, Thrown(InvalidFormatMsg))
        ELSE registerAwait(rest, [o EXCEPT !.pc = "staticCall", !.referrer = Some(referrerAddress),
                                           !.balance = Null], ld, er)

\* lines 441-450: with no contract the call throws inside the try and the
\* inner catch swallows it
registerExistingCheck(rest, o, ld, er) ==
    IF o.contract = Null
    THEN registerPrompt(rest, o, ld, er)
    ELSE registerAwait(rest, [o EXCEPT !.pc = "existingUser", !.balance = Null], ld, er)

\* the pre-flight with <= in place of <
registerPreflight_Inclusive(rest, o, balance, allowance) ==
    IF parseFloat(formatUnits(balance)) <= 100
    THEN registerCatch(rest, Thrown(LowBalanceMsg))
    ELSE IF parseFloat(formatUnits(allowance)) <= 100
    THEN registerCatch(rest, Thrown(LowAllowanceMsg))
    ELSE registerExistingCheck(rest, o, loading, error)

\* lines 427-439 for a fetched status
registerPreflight(rest, o, balance, allowance) ==
    IF parseFloat(formatUnits(balance)) < 100
    THEN registerCatch(rest, Thrown(LowBalanceMsg))
    ELSE IF parseFloat(formatUnits(allowance)) < 100
    THEN registerCatch(rest, Thrown(LowAllowanceMsg))
    ELSE registerExistingCheck(rest, o, loading, error)

\* register up to its first await
register ==
    /\ LET o == [NoOpFields EXCEPT !.kind = "register", !.signer = signer, !.contract = contract] IN
       IF signer = Null \/ account = Null
       THEN registerExistingCheck(ops, o, TRUE, Null)
       ELSE registerAwait(ops, [o EXCEPT !.pc = "balanceOf"], TRUE, Null)
    /\ UNCHANGED <<account, contract, signer, user>>

ClickRegister ==
    /\ RegisterEnabled
    /\ OpCount < MaxOps
    /\ register
    /\ UNCHANGED <<walletAvailable, checkingWallet, deviceType, walletType, listening>>
    /\ UNCHANGED detector
    /\ events < MaxEvents
    /\ events' = events + 1
    /\ UNCHANGED <<configOK, isMobile, ethereum, walletAccount, walletChain, chainEvent>>

\* usdt.balanceOf(account) of register's checkUSDTStatus answers
RegisterBalance ==
    \E o \in OpSet :
        /\ o.kind = "register" /\ o.pc = "balanceOf"
        /\ \/ registerExistingCheck(Drop(o), o, loading, error)
           \/ \E b \in Amounts :
                registerAwait(Drop(o), [o EXCEPT !.pc = "allowance", !.balance = Some(b)], loading, error)
        /\ UNCHANGED <<account, contract, signer, user>>
        /\ UNCHANGED <<walletAvailable, checkingWallet, deviceType, walletType, listening>>
        /\ UNCHANGED detector
        /\ UNCHANGED env

\* usdt.allowance(account, CONTRACT_ADDRESS) answers
RegisterAllowance ==
    \E o \in OpSet :
        /\ o.kind = "register" /\ o.pc = "allowance"
        /\ \/ registerExistingCheck(Drop(o), o, loading, error)
           \/ \E a \in Amounts : registerPreflight(Drop(o), o, Get(o.balance), a)
        /\ UNCHANGED <<account, contract, signer, user>>
        /\ UNCHANGED <<walletAvailable, checkingWallet, deviceType, walletType, listening>>
        /\ UNCHANGED detector
        /\ UNCHANGED env

\* what register does with the answer of its own getMyDetails(): existing
\* is Null for a rejected call; the error thrown for exists = true is
\* thrown inside the try and caught by its catch
registerExistingAnswer(o, existing) ==
    IF existing # Null /\ Get(existing).exists
    THEN registerPrompt(Drop(o), o, loading, error)
    ELSE registerPrompt(Drop(o), o, loading, error)

RegisterExisting ==
    \E o \in OpSet :
        /\ o.kind = "register" /\ o.pc = "existingUser"
        /\ \E existing \in {Null} \cup {Some(u) : u \in Details(Get(o.contract).runner.address)} :
              registerExistingAnswer(o, existing)
        /\ UNCHANGED <<account, contract, signer, user>>
        /\ UNCHANGED <<walletAvailable, checkingWallet, deviceType, walletType, listening>>
        /\ UNCHANGED detector
        /\ UNCHANGED env

\* a failed static call is only logged and the transaction is sent anyway
registerStaticAnswer_IgnoresFailure(o, staticError) ==
    registerAwait(Drop(o), [o EXCEPT !.pc = "send"], loading, error)

\* lines 468-496: what register does with the answer of the static call;
\* staticError is Null when the call resolved
registerStaticAnswer(o, staticError) ==
    IF staticError # Null
    THEN registerCatch(Drop(o), Thrown(StaticCallMessage(Get(staticError))))
    ELSE registerAwait(Drop(o), [o EXCEPT !.pc = "send"], loading, error)

\* contract.register.staticCall(referrerAddress) answers
RegisterStatic ==
    \E o \in OpSet :
        /\ o.kind = "register" /\ o.pc = "staticCall"
        /\ \E staticError \in {Null} \cup {Some(e) : e \in StaticErrors} :
              registerStaticAnswer(o, staticError)
        /\ UNCHANGED <<account, contract, signer, user>>
        /\ UNCHANGED <<walletAvailable, checkingWallet, deviceType, walletType, listening>>
        /\ UNCHANGED detector
        /\ UNCHANGED env

\* contract.register(referrerAddress, {gasLimit}) answers
RegisterSend ==
    \E o \in OpSet :
        /\ o.kind = "register" /\ o.pc = "send"
        /\ \/ \E e \in RegisterSendErrors : registerCatch(Drop(o), e)
           \/ registerAwait(Drop(o), [o EXCEPT !.pc = "wait", !.referrer = Null], loading, error)
        /\ UNCHANGED <<account, contract, signer, user>>
        /\ UNCHANGED <<walletAvailable, checkingWallet, deviceType, walletType, listening>>
        /\ UNCHANGED detector
        /\ UNCHANGED env

\* tx.wait() of register answers: on success loadUser is called
RegisterWait ==
    \E o \in OpSet :
        /\ o.kind = "register" /\ o.pc = "wait"
        /\ \/ \E e \in WaitErrors : registerCatch(Drop(o), e)
           \/ registerAwait(Drop(o), [o EXCEPT !.pc = "getMyDetails"], loading, error)
        /\ UNCHANGED <<account, contract, signer, user>>
        /\ UNCHANGED <<walletAvailable, checkingWallet, deviceType, walletType, listening>>
        /\ UNCHANGED detector
        /\ UNCHANGED env

(* ------------------------------ the system ---------------------------- *)
Next ==
    \/ Mount
    \/ Poll
    \/ InjectProvider
    \/ ClickRefresh
    \/ ClickConnect
    \/ ConnectAccounts
    \/ ConnectSigner
    \/ ConnectNetwork
    \/ ConnectSwitch
    \/ ConnectAdd
    \/ LoadUserReturn
    \/ AccountsChanged
    \/ ChainSwitchedByUser
    \/ ChainChanged
    \/ ClickUpgrade
    \/ ClickWithdraw
    \/ ActionSend
    \/ ActionWait
    \/ ClickApprove
    \/ ApproveWait
    \/ ClickRegister
    \/ RegisterBalance
    \/ RegisterAllowance
    \/ RegisterExisting
    \/ RegisterStatic
    \/ RegisterSend
    \/ RegisterWait

Spec == Init /\ [][Next]_vars

\* the system with the "Check USDT Status" button, which changes no state
NextWithStatus == Next \/ ClickStatus \/ StatusAnswer
SpecWithStatus == Init /\ [][NextWithStatus]_vars


(* ------------- the system with a stable wallet and contract ----------- *)
\* getMyDetails() of a contract whose state does not change: the first
\* address is registered, for the second the call reverts
StableAnswer(addr) ==
    IF addr = "0xA1"
    THEN Some(CHOOSE u \in Details(addr) : u.exists)
    ELSE Null

LoadUserStable ==
    \E o \in OpSet :
        /\ o.pc = "getMyDetails"
        /\ loadUserAnswer(o, StableAnswer(Get(o.contract).runner.address))
        /\ UNCHANGED <<walletAvailable, checkingWallet, deviceType, walletType, listening>>
        /\ UNCHANGED detector
        /\ UNCHANGED env

\* the wallet notifies the page of its accounts again, the list being the same
AccountsReemitted ==
    /\ ethereum # Null /\ listening
    /\ walletAccount # Null
    /\ events < MaxEvents
    /\ OpCount < MaxOps
    /\ handleAccountsChanged(walletAccount)
    /\ events' = events + 1
    /\ UNCHANGED <<walletAvailable, checkingWallet, deviceType, walletType, listening>>
    /\ UNCHANGED detector
    /\ UNCHANGED <<configOK, isMobile, ethereum, walletAccount, walletChain, chainEvent>>

InitStable ==
    /\ configOK = TRUE
    /\ isMobile \in BOOLEAN
    /\ ethereum \in {Some(p) : p \in Providers}
    /\ walletAccount \in {Some(a) : a \in Accounts}
    /\ walletChain \in Chains
    /\ chainEvent = FALSE
    /\ events = 0
    /\ PageLoaded

NextStable ==
    \/ Mount
    \/ ClickConnect
    \/ AccountsReemitted
    \/ ConnectAccounts
    \/ ConnectSigner
    \/ ConnectNetwork
    \/ ConnectSwitch
    \/ ConnectAdd
    \/ LoadUserStable
    \/ ChainChanged

SpecStable == InitStable /\ [][NextStable]_vars

(* ------------------ the detector with every provider ------------------ *)
\* every combination of the capability flags detectDeviceAndWallet reads
AllProviders == {Flags(mm, sp, tr, cb) : mm \in BOOLEAN, sp \in BOOLEAN, tr \in BOOLEAN, cb \in BOOLEAN}

\* a wallet of any vendor injects window.ethereum after the page has loaded
InjectAnyProvider ==
    /\ ethereum = Null
    /\ \E p \in AllProviders : ethereum' = Some(p)
    /\ UNCHANGED <<configOK, isMobile, walletAccount, walletChain, chainEvent, events>>
    /\ UNCHANGED react
    /\ UNCHANGED <<listening, ops>>
    /\ UNCHANGED detector

InitLabels ==
    /\ configOK = TRUE
    /\ isMobile \in BOOLEAN
    /\ ethereum \in {Null} \cup {Some(p) : p \in AllProviders}
    /\ walletAccount = Null
    /\ walletChain \in Chains
    /\ chainEvent = FALSE
    /\ events = 0
    /\ PageLoaded

NextLabels ==
    \/ Mount
    \/ Poll
    \/ InjectAnyProvider

SpecLabels == InitLabels /\ [][NextLabels]_vars

(* -------------- register against every revert message ----------------- *)
\* every failed static call: any set of keywords, with and without a reason
AllStaticErrors == {StaticError(K, r) : K \in SUBSET Keywords, r \in {"", "custom reason"}}

\* contract.register.staticCall(referrerAddress) answers, the contract
\* reverting with any message
RegisterStaticAny ==
    \E o \in OpSet :
        /\ o.kind = "register" /\ o.pc = "staticCall"
        /\ \E staticError \in {Null} \cup {Some(e) : e \in AllStaticErrors} :
              registerStaticAnswer(o, staticError)
        /\ UNCHANGED <<account, contract, signer, user>>
        /\ UNCHANGED <<walletAvailable, checkingWallet, deviceType, walletType, listening>>
        /\ UNCHANGED detector
        /\ UNCHANGED env

NextRevert ==
    \/ Mount
    \/ ClickConnect
    \/ ConnectAccounts
    \/ ConnectSigner
    \/ ConnectNetwork
    \/ ConnectSwitch
    \/ ConnectAdd
    \/ LoadUserReturn
    \/ ChainChanged
    \/ ClickRegister
    \/ RegisterBalance
    \/ RegisterAllowance
    \/ RegisterExisting
    \/ RegisterStaticAny
    \/ RegisterSend
    \/ RegisterWait

SpecRevert == InitStable /\ [][NextRevert]_vars

(* --------------- the system with calls that always answer ------------- *)
\* a wallet or chain call in flight resolves or rejects
Answer ==
    \/ ConnectAccounts
    \/ ConnectSigner
    \/ ConnectNetwork
    \/ ConnectSwitch
    \/ ConnectAdd
    \/ LoadUserReturn
    \/ ActionSend
    \/ ActionWait
    \/ ApproveWait
    \/ RegisterBalance
    \/ RegisterAllowance
    \/ RegisterExisting
    \/ RegisterStatic
    \/ RegisterSend
    \/ RegisterWait

\* the page with its wallet present from the start: the five actions, their
\* awaited calls, the wallet's account notifications (each starts a connect
\* run, also while another run is in flight) and the reload on a chain change
NextLive ==
    \/ Mount
    \/ ClickConnect
    \/ ClickApprove
    \/ ClickRegister
    \/ ClickUpgrade
    \/ ClickWithdraw
    \/ AccountsReemitted
    \/ ChainChanged
    \/ Answer

\* no awaited call stays pending forever
SpecLive == InitStable /\ [][NextLive]_vars /\ WF_vars(Answer)

(* ------------- the handlers called whatever the page shows ------------ *)
\* approveUSDT(), register(), upgrade() and withdraw() called in any state
\* of the component, also one in which the page shows no button for them
CallApprove ==
    /\ initPc = "done"
    /\ OpCount < MaxOps
    /\ approveUSDT
    /\ UNCHANGED <<walletAvailable, checkingWallet, deviceType, walletType, listening>>
    /\ UNCHANGED detector
    /\ events < MaxEvents
    /\ events' = events + 1
    /\ UNCHANGED <<configOK, isMobile, ethereum, walletAccount, walletChain, chainEvent>>

CallRegister ==
    /\ initPc = "done"
    /\ OpCount < MaxOps
    /\ register
    /\ UNCHANGED <<walletAvailable, checkingWallet, deviceType, walletType, listening>>
    /\ UNCHANGED detector
    /\ events < MaxEvents
    /\ events' = events + 1
    /\ UNCHANGED <<configOK, isMobile, ethereum, walletAccount, walletChain, chainEvent>>

CallUpgrade ==
    /\ initPc = "done"
    /\ OpCount < MaxOps
    /\ upgrade
    /\ UNCHANGED <<walletAvailable, checkingWallet, deviceType, walletType, listening>>
    /\ UNCHANGED detector
    /\ events < MaxEvents
    /\ events' = events + 1
    /\ UNCHANGED <<configOK, isMobile, ethereum, walletAccount, walletChain, chainEvent>>

CallWithdraw ==
    /\ initPc = "done"
    /\ OpCount < MaxOps
    /\ withdraw
    /\ UNCHANGED <<walletAvailable, checkingWallet, deviceType, walletType, listening>>
    /\ UNCHANGED detector
    /\ events < MaxEvents
    /\ events' = events + 1
    /\ UNCHANGED <<configOK, isMobile, ethereum, walletAccount, walletChain, chainEvent>>

NextDirect ==
    \/ Mount
    \/ ClickConnect
    \/ CallApprove
    \/ CallRegister
    \/ CallUpgrade
    \/ CallWithdraw
    \/ ChainChanged
    \/ Answer

SpecDirect == InitStable /\ [][NextDirect]_vars

(* --------------------- the handlers and the status query -------------- *)
\* checkUSDTStatus() called in any state of the component
CallStatus ==
    /\ initPc = "done"
    /\ OpCount < MaxOps
    /\ checkUSDTStatus
    /\ UNCHANGED <<walletAvailable, checkingWallet, deviceType, walletType, listening>>
    /\ UNCHANGED detector
    /\ events < MaxEvents
    /\ events' = events + 1
    /\ UNCHANGED <<configOK, isMobile, ethereum, walletAccount, walletChain, chainEvent>>

NextQuery ==
    \/ NextDirect
    \/ CallStatus
    \/ StatusAnswer

SpecQuery == InitStable /\ [][NextQuery]_vars

(* ------------- the page with a provider that can go away -------------- *)
\* window.ethereum becomes undefined after the page has loaded (the wallet
\* extension is disabled or removed); what the detector stored stays
ProviderRemoved ==
    /\ ethereum # Null
    /\ events < MaxEvents
    /\ ethereum' = Null
    /\ events' = events + 1
    /\ UNCHANGED <<configOK, isMobile, walletAccount, walletChain, chainEvent>>
    /\ UNCHANGED react
    /\ UNCHANGED <<listening, ops>>
    /\ UNCHANGED detector

NextProvider ==
    \/ Mount
    \/ Poll
    \/ InjectProvider
    \/ ProviderRemoved
    \/ ClickConnect
    \/ ConnectAccounts
    \/ ConnectSigner
    \/ ConnectNetwork
    \/ ConnectSwitch
    \/ ConnectAdd
    \/ LoadUserReturn
    \/ ChainChanged

SpecProvider == InitStable /\ [][NextProvider]_vars

(* ============================== claims ================================ *)
Range(seq) == {seq[i] : i \in DOMAIN seq}
MutatingEnabled == ApproveEnabled \/ RegisterEnabled \/ UpgradeEnabled \/ WithdrawEnabled
ConnectOps == {o \in OpSet : o.kind = "connect"}
\* a step that discards the page (reload) rather than ending one call
PageDiscarded == initPc' = "mount"

\* C1: at most one of approve, register, upgrade, withdraw is in flight in
\* every reachable state, the triggers being disabled while loading is true
C1_OneMutatingInFlight == InFlight(Mutating) <= 1

\* C2: whenever the UserRecord is present the account is present; a loadUser
\* pending across a teardown never brings the UserRecord back
C2_UserImpliesAccount == user # Null => account # Null

\* C3: whenever the account is present, the signer and the contract handle
\* are present
C3_AccountImpliesSignerContract == account # Null => (signer # Null /\ contract # Null)
\* a connectWallet run has just stored the session and awaits loadUser
C3_Witness ==
    /\ account # Null
    /\ \E o \in ConnectOps : o.pc = "getMyDetails" /\ o.address = account

\* C4: with the contract or token address missing, once initializeApp has
\* run the configuration error stays displayed and no call is ever started
C4_ConfigErrorTerminal ==
    (~configOK /\ initPc = "done") => (error = Some(ConfigMsg) /\ OpCount = 0)

\* C5: whenever a chainChanged notification is delivered while a provider
\* is present, the page is reloaded: all state is back at its initial value
C5_ChainChangedReloads ==
    [][(chainEvent /\ ~chainEvent' /\ ethereum # Null) => PageLoaded']_vars

\* C6: the step that handles accountsChanged with an empty list leaves
\* account, contract, signer and user null and no mutating trigger enabled
C6_TeardownClearsAll ==
    [][(listening /\ walletAccount # Null /\ walletAccount' = Null)
        => (/\ account' = Null /\ contract' = Null /\ signer' = Null /\ user' = Null
            /\ ~MutatingEnabled')]_vars
\* the session was torn down while an action started from it is in flight
C6_Witness ==
    /\ listening /\ walletAccount = Null
    /\ account = Null /\ contract = Null /\ signer = Null /\ user = Null
    /\ \E o \in OpSet : o.kind \in Mutating /\ (o.contract # Null \/ o.signer # Null)

\* C7: the step that handles accountsChanged with a non-empty list starts a
\* connectWallet run at its first await with no signer, address or contract;
\* every run takes its signer and address from the wallet's answer; and the
\* step that establishes the session stores exactly what the run obtained
C7_ReconnectFromScratch ==
    [][/\ (listening /\ walletAccount' # walletAccount /\ walletAccount' # Null)
            => /\ ops' = Put([NoOpFields EXCEPT !.kind = "connect", !.pc = "eth_requestAccounts"])
               /\ UNCHANGED <<account, contract, signer, user>>
       /\ \A o \in ConnectOps :
            o.pc \in {"eth_requestAccounts", "getSigner"}
                => (o.signer = Null /\ o.address = Null /\ o.contract = Null)
       /\ (ops' # ops)
            => \A o \in ConnectOps : \A n \in BagToSet(ops') :
                /\ (o.pc = "getSigner" /\ n.kind = "connect" /\ n.pc = "getNetwork" /\ ops' = Replace(o, n))
                      => (/\ walletAccount # Null
                          /\ n.signer = Some(NewSigner(Get(walletAccount)))
                          /\ n.address = walletAccount)
                /\ (/\ o.pc \in {"getNetwork", SwitchRequest, AddRequest}
                    /\ n.kind = "connect" /\ n.pc = "getMyDetails" /\ ops' = Replace(o, n))
                      => (/\ o.address # Null
                          /\ account' = o.address
                          /\ signer' = o.signer
                          /\ contract' = Some(NewContract(Get(o.signer)))
                          /\ n.contract = contract')
      ]_vars
\* the only stimulus so far was the wallet moving to the second account, and
\* the run it started has established the session for that account
C7_Witness ==
    /\ listening /\ events = 1
    /\ walletAccount = Some("0xA2") /\ account = Some("0xA2")
    /\ signer = Some(NewSigner("0xA2"))
    /\ \E o \in ConnectOps : o.pc = "getMyDetails" /\ o.contract = contract

\* C8: a connectWallet run that issued the registration request has issued
\* the switch request again after it by the time it establishes the session
C8_SwitchRetriedAfterAdd ==
    \A o \in ConnectOps :
        (o.pc = "getMyDetails" /\ AddRequest \in Range(o.log))
            => \E i \in DOMAIN o.log : \E j \in DOMAIN o.log :
                  o.log[i] = AddRequest /\ j > i /\ o.log[j] = SwitchRequest

\* C9: in the log of every connectWallet run a registration request directly
\* follows a switch request rejected with the unknown-chain code; nothing is
\* requested after a resolved switch; nothing is requested on a matching chain
C9_AddOnlyAfterUnknownChain ==
    \A o \in ConnectOps :
        /\ \A i \in DOMAIN o.log :
              o.log[i] = AddRequest
                  => (i > 2 /\ o.log[i - 1] = Rejected(UnknownChainCode) /\ o.log[i - 2] = SwitchRequest)
        /\ \A i \in DOMAIN o.log :
              (o.log[i] = SwitchRequest /\ i < Len(o.log) /\ o.log[i + 1] = Resolved)
                  => Len(o.log) = i + 1
        /\ (ChainMatch \in Range(o.log)) => o.log = <<ChainMatch>>
\* runs through each of the three ways past the chain check are in flight
C9_Witness ==
    \E o \in ConnectOps :
        /\ o.pc = "getMyDetails"
        /\ o.log = <<ChainMismatch, SwitchRequest, Resolved>>
C9_WitnessAdd ==
    \E o \in ConnectOps :
        /\ o.pc = "getMyDetails"
        /\ o.log = <<ChainMismatch, SwitchRequest, Rejected(UnknownChainCode), AddRequest, Resolved>>

\* C10: the step in which a connectWallet run ends on a rejected switch
\* request has made no registration request, leaves account, contract,
\* signer and user as they are, stores the failure message and clears loading
C10_SwitchFailureAborts ==
    [][/\ (ops' # ops /\ ~PageDiscarded)
            => \A o \in ConnectOps :
                  (o.pc = SwitchRequest /\ ops' = Drop(o))
                      => (/\ AddRequest \notin Range(o.log)
                          /\ UNCHANGED session
                          /\ error' \in {Some(SwitchRejected.message), Some(ConnectFallbackMsg)}
                          /\ loading' = FALSE)
       \* nor has any earlier step of such a run touched the session
       /\ (session' # session)
            => /\ ops' # Put([NoOpFields EXCEPT !.kind = "connect", !.pc = "eth_requestAccounts"])
               /\ \A o \in ConnectOps : \A n \in BagToSet(ops') :
                    (/\ n.kind = "connect" /\ n.pc \in {"getSigner", "getNetwork", SwitchRequest}
                     /\ n # o)
                        => ops' # Replace(o, n)
      ]_vars
\* a reconnect was aborted by a rejected switch and the earlier session stands
C10_Witness ==
    /\ error = Some(SwitchRejected.message)
    /\ ~loading /\ OpCount = 0
    /\ account # Null /\ signer # Null /\ contract # Null /\ user # Null
    /\ walletChain # CHAIN_ID


\* a step that ends or advances a copy of the call o
Consumed(o) == CopiesIn(o, ops') < CopiesIn(o, ops)

\* C11: when the wallet grants an empty account list, the connectWallet run
\* ends there: it requests no signer and no chain, leaves account, contract
\* and signer as they were, and stores the no-accounts message
C11_EmptyAccountListFails ==
    [][(ops' # ops /\ ~PageDiscarded /\ walletAccount = Null)
        => \A o \in ConnectOps :
              (o.pc = "eth_requestAccounts" /\ Consumed(o))
                  => /\ ops' = Drop(o)
                     /\ UNCHANGED session
                     /\ loading' = FALSE
                     /\ error' \in {Some(NoAccountsMsg), Some(UserRejected.message),
                                    Some(ConnectFallbackMsg)}
                     /\ connectWalletAccounts(o, <<>>) => error' = Some(NoAccountsMsg)]_vars
\* a run has ended on the empty list of a locked wallet
C11_Witness ==
    /\ walletAccount = Null /\ error = Some(NoAccountsMsg) /\ ~loading
    /\ account = Null /\ signer = Null /\ contract = Null
    /\ OpCount = 0

\* C12: when the getMyDetails() of a connectWallet run is rejected, the run
\* ends with the UserRecord absent and leaves account, contract, signer and
\* the error slot as they were; a run nothing else interfered with leaves a
\* connected session and an empty error slot
C12_LoadUserFailureKeepsSession ==
    [][(ops' # ops /\ ~PageDiscarded /\ user' = Null)
        => \A o \in ConnectOps :
              (o.pc = "getMyDetails" /\ Consumed(o))
                  => /\ ops' = Drop(o)
                     /\ UNCHANGED <<account, contract, signer, error>>
                     /\ loading' = FALSE
                     /\ (events = 1 /\ OpCount = 1)
                          => /\ account' = o.address /\ account' # Null
                             /\ signer' = o.signer /\ signer' # Null
                             /\ contract' = o.contract /\ contract' # Null
                             /\ error' = Null]_vars
\* the only run so far has ended connected, without a UserRecord or an error
C12_Witness ==
    /\ events = 1 /\ OpCount = 0 /\ ~loading
    /\ account # Null /\ signer # Null /\ contract # Null
    /\ user = Null /\ error = Null

\* the UserRecord a completed connectWallet run leaves for the account
StableUser ==
    LET answer == StableAnswer(Get(account)) IN
    IF answer = Null THEN Null ELSE Some(UserRecord(Get(answer)))

\* C13: with a stable account list and contract state, however many
\* connectWallet runs have been made, the session is the one a single run
\* leaves: the wallet's account, a signer for it, a handle bound to that
\* signer, and the UserRecord the contract holds for it
C13_ConnectIdempotent ==
    account # Null
        => /\ account = walletAccount
           /\ signer = Some(NewSigner(Get(walletAccount)))
           /\ contract = Some(NewContract(NewSigner(Get(walletAccount))))
           /\ \/ user = StableUser
              \/ user = Null /\ OpCount > 0
           /\ (\A o \in ConnectOps : o.pc # "getMyDetails") => user = StableUser
\* a second run has established the session again after the first was complete
C13_Witness ==
    /\ account # Null /\ user # Null /\ events = 2
    /\ \E o \in ConnectOps : o.pc = "getMyDetails" /\ o.address = account

\* C14: while the detector is polling it has made fewer polls than the
\* budget of the device class (20 on a mobile user agent, 50 on a desktop
\* one), the poll that reaches the budget being the one that resolves
C14_DetectorBudget ==
    initPc = "polling"
        => attempts < (IF isMobile THEN MobileAttempts ELSE DesktopAttempts)

\* C15: the detector resolves with the provider's presence at the check
\* that resolves it; it resolves false only at the poll that exhausts the
\* budget; a poll that does not resolve found no provider and is within the
\* budget; once resolved, nothing polls or resolves again
C15_DetectorResolution ==
    [][/\ (configOK /\ initPc # "done" /\ initPc' = "done")
            => /\ walletAvailable' = (ethereum # Null)
               /\ checkingWallet' = FALSE
               /\ ethereum = Null
                    => /\ initPc = "polling"
                       /\ attempts + 1 = maxAttempts
                       /\ maxAttempts \in {MobileAttempts, DesktopAttempts}
       /\ (initPc = "polling" /\ initPc' = "polling" /\ attempts' # attempts)
            => /\ ethereum = Null
               /\ attempts' = attempts + 1
               /\ attempts' < maxAttempts
       /\ (initPc = "done" /\ initPc' = "done")
            => UNCHANGED <<attempts, maxAttempts, walletAvailable, checkingWallet>>
      ]_vars
\* the detector has given up: the budget was exhausted without a provider
C15_Witness ==
    /\ configOK /\ initPc = "done" /\ ethereum = Null
    /\ ~walletAvailable /\ ~checkingWallet
    /\ error = Some(NoWalletDesktopMsg)

\* the vendor the claimed precedence picks for a provider's flags
Precedence(eth) ==
    IF eth.isMetaMask THEN "MetaMask"
    ELSE IF eth.isSafePal THEN "SafePal"
    ELSE IF eth.isTrust THEN "Trust"
    ELSE IF eth.isCoinbaseWallet THEN "Coinbase"
    ELSE "generic"
\* the vendor a label names
Vendor(label) ==
    IF label \in {"MetaMask Mobile", "MetaMask"} THEN "MetaMask"
    ELSE IF label = "SafePal" THEN "SafePal"
    ELSE IF label = "Trust Wallet" THEN "Trust"
    ELSE IF label = "Coinbase Wallet" THEN "Coinbase"
    ELSE "generic"

\* C16: on both device classes the label stored for a detected provider
\* names the first flag set in the order MetaMask, SafePal, Trust, Coinbase,
\* and is the generic one only when none of the four is set
C16_LabelPrecedence ==
    (walletType # Null /\ ethereum # Null)
        => Vendor(Get(walletType)) = Precedence(Get(ethereum))

\* a step that starts a copy of the call n or moves a call to n
Produced(n) == CopiesIn(n, ops') > CopiesIn(n, ops)

\* C17: a register, upgrade or withdraw call submits its transaction only
\* in a step that answers its own dry run of that call
C17_SimulationBeforeSubmission ==
    [][(ops' # ops)
        => \A n \in BagToSet(ops') :
              (n.kind \in {"register", "upgrade", "withdraw"} /\ n.pc = "send" /\ Produced(n))
                  => \E o \in OpSet :
                        o.kind = n.kind /\ o.pc = "staticCall" /\ ops' = Replace(o, n)]_vars

\* the messages register stores for a failed static call
StaticFailureMessages == {Some(StaticCallMessage(e)) : e \in StaticErrors}

\* C18: register submits its transaction only in the step that answers its
\* static call, with the referrer address that call was made with; a static
\* call that fails ends the run (nothing is submitted, waited for or
\* refreshed) and every register call in flight past the static call has
\* had it succeed
C18_SubmitOnlyAfterSimulation ==
    [][(ops' # ops /\ ~PageDiscarded)
        => /\ \A n \in BagToSet(ops') :
                (n.kind = "register" /\ n.pc = "send" /\ Produced(n))
                    => \E o \in OpSet :
                          /\ o.kind = "register" /\ o.pc = "staticCall"
                          /\ n = [o EXCEPT !.pc = "send"]
                          /\ n.referrer # Null /\ n.referrer = o.referrer
                          /\ ops' = Replace(o, n)
                          /\ UNCHANGED <<error, loading, user>>
           /\ \A o \in OpSet :
                (o.kind = "register" /\ o.pc = "staticCall" /\ Consumed(o))
                    => \/ ops' = Replace(o, [o EXCEPT !.pc = "send"])
                       \/ /\ ops' = Drop(o)
                          /\ error' \in StaticFailureMessages
                          /\ loading' = FALSE
                          /\ user' = user
           /\ \A o \in OpSet : \A e \in StaticErrors :
                (o.kind = "register" /\ o.pc = "staticCall" /\ registerStaticAnswer(o, Some(e)))
                    => /\ ops' = Drop(o)
                       /\ error' = Some(StaticCallMessage(e))
                       /\ loading' = FALSE
           /\ \A n \in BagToSet(ops') :
                (n.kind = "register" /\ n.pc \in {"wait", "getMyDetails"} /\ Produced(n))
                    => \E o \in OpSet :
                          /\ o.kind = "register" /\ o.pc \in {"send", "wait"}
                          /\ ops' = Replace(o, n)]_vars
\* a simulation has failed and left its message; nothing of register is in flight
C18_Witness ==
    /\ error \in StaticFailureMessages /\ ~loading
    /\ \A o \in OpSet : o.kind # "register"
\* a transaction has been submitted after its simulation succeeded
C18_WitnessSubmitted ==
    \E o \in OpSet : o.kind = "register" /\ o.pc = "send" /\ o.referrer # Null

\* ten tokens, in tenths
TenTokens == 100

\* C19: for a fetched balance and allowance, register's pre-flight ends the
\* run with the insufficient-balance message when the balance is below ten
\* tokens, with the insufficient-allowance message when only the allowance
\* is, and otherwise lets register go on to its next call; a run that the
\* pre-flight ended is gone (no simulation follows)
C19_PreflightThreshold ==
    [][(ops' # ops /\ ~PageDiscarded)
        => \A o \in OpSet :
              (o.kind = "register" /\ o.pc = "allowance" /\ Consumed(o))
                  => /\ \A a \in Amounts :
                          registerPreflight(Drop(o), o, Get(o.balance), a)
                              => IF Get(o.balance) < TenTokens
                                 THEN /\ ops' = Drop(o)
                                      /\ error' = Some(LowBalanceMsg)
                                      /\ loading' = FALSE
                                 ELSE IF a < TenTokens
                                 THEN /\ ops' = Drop(o)
                                      /\ error' = Some(LowAllowanceMsg)
                                      /\ loading' = FALSE
                                 ELSE /\ ops' = Replace(o, [o EXCEPT !.pc = "existingUser", !.balance = Null])
                                      /\ UNCHANGED <<error, loading>>
                     /\ ops' = Drop(o)
                          => /\ error' \in {Some(LowBalanceMsg), Some(LowAllowanceMsg)}
                             /\ error' = Some(LowBalanceMsg) <=> Get(o.balance) < TenTokens]_vars
\* the pre-flight has ended a run on its balance
C19_Witness ==
    /\ error = Some(LowBalanceMsg) /\ ~loading
    /\ \A o \in OpSet : o.kind # "register"
\* the pre-flight has passed a run that fetched ten tokens of balance
C19_WitnessPass ==
    /\ error = Null /\ loading
    /\ \E o \in OpSet : o.kind = "register" /\ o.pc = "existingUser"

\* the awaits of register that are calls to the network
NetworkPcs == {"balanceOf", "allowance", "existingUser", "staticCall", "send", "wait", "getMyDetails"}

\* C20: a referrer string is accepted iff it matches 0x and forty hex
\* digits, and a register run that ends with the invalid-referrer message
\* has made no network call: it is not a run suspended at one
C20_ReferrerCheckedFirst ==
    [][(ops' # ops /\ ~PageDiscarded)
        => /\ \A n \in BagToSet(ops') :
                (n.kind = "register" /\ n.referrer # Null) => MatchesAddress(Get(n.referrer))
           /\ \A o \in OpSet :
                (o.kind = "register" /\ o.pc \in NetworkPcs /\ Consumed(o) /\ ops' = Drop(o))
                    => (error' = Some(InvalidFormatMsg) => error = Some(InvalidFormatMsg))]_vars

\* a prioritized rule list: the keywords of a rule and the message it reports
Rule(keys, msg) == [keys |-> keys, msg |-> msg]
\* the four rules in the order AlreadyRegistered > InvalidReferrer >
\* InsufficientAllowance > InsufficientBalance
FourRules ==
    <<Rule({"already registered", "user exists"}, AlreadyRegisteredMsg),
      Rule({"referrer"}, InvalidReferrerMsg),
      Rule({"allowance"}, SimAllowanceMsg),
      Rule({"balance"}, SimBalanceMsg)>>
\* the four rules followed by the fee rule
FiveRules == FourRules \o <<Rule({"fee", "amount"}, SimFeeMsg)>>
\* the raw reason an unclassified failure carries
RawReason(e) == IF e.reason # "" THEN e.reason ELSE e.message
\* the message of the first rule one of whose keywords the failure contains,
\* the unknown-failure message with the raw reason when there is none
Reported(rules, e) ==
    LET hits == {i \in DOMAIN rules : rules[i].keys \cap e.keywords # {}} IN
    IF hits = {} THEN "Registration failed: " \o RawReason(e)
    ELSE rules[CHOOSE i \in hits : \A j \in hits : i <= j].msg
\* the effect of a failed simulation reported under the given rules
SimulationReports(rules) ==
    \A o \in OpSet : \A e \in AllStaticErrors :
        (o.kind = "register" /\ o.pc = "staticCall" /\ registerStaticAnswer(o, Some(e)))
            => /\ error' = Some(Reported(rules, e))
               /\ loading' = FALSE
               /\ ops' = Drop(o)

\* C21 as stated: a failed register simulation is reported as the first
\* match among already-registered, referrer, allowance, balance, and as
\* unknown with the raw reason when its message has none of these keywords
C21_KeywordPrecedence ==
    [][(ops' # ops /\ ~PageDiscarded) => SimulationReports(FourRules)]_vars
\* C21 amended: a failed register simulation is reported as the first match
\* among already-registered, referrer, allowance, balance, fee/amount, and as
\* unknown with the raw reason when its message has none of these keywords
C21_KeywordPrecedenceWithFee ==
    [][(ops' # ops /\ ~PageDiscarded) => SimulationReports(FiveRules)]_vars
\* a failed simulation whose message names the referrer (and possibly
\* allowance or balance after it) has been reported
C21_Witness ==
    /\ error = Some(InvalidReferrerMsg) /\ ~loading
    /\ \A o \in OpSet : o.kind # "register"
\* a failed simulation with none of the keywords has been reported
C21_WitnessUnknown ==
    /\ error = Some("Registration failed: custom reason") /\ ~loading

\* the actions that end with a refresh of the user record
Refreshing == {"register", "upgrade", "withdraw"}
\* the messages a failed confirmation of call o leaves in the error slot
WaitFailureMessages(o) ==
    IF o.kind = "register"
    THEN {Some(RegisterErrorMessage(e)) : e \in WaitErrors}
    ELSE {Some(MessageOr(e.message, FallbackMsg(o.kind))) : e \in WaitErrors}

\* C22: when the confirmation of a register, upgrade or withdraw is
\* answered, either it failed (the run ends with its error) or the run goes
\* on, in that same step and with its own contract handle, to the
\* user-details query; a run of these actions is at that query only from
\* its confirmation; and the answer of the query is stored as the user
\* record (id, level and formatted balance of the answer) as the run ends
C22_RefreshAfterConfirmation ==
    [][(ops' # ops /\ ~PageDiscarded)
        => /\ \A o \in OpSet :
                (o.kind \in Refreshing /\ o.pc = "wait" /\ Consumed(o))
                    => \/ /\ ops' = Replace(o, [o EXCEPT !.pc = "getMyDetails"])
                          /\ UNCHANGED <<user, loading, error>>
                       \/ /\ ops' = Drop(o)
                          /\ error' \in WaitFailureMessages(o)
                          /\ loading' = FALSE
                          /\ user' = user
           /\ \A n \in BagToSet(ops') :
                (n.kind \in Refreshing /\ n.pc = "getMyDetails" /\ Produced(n))
                    => \E o \in OpSet :
                          /\ o.pc = "wait" /\ n = [o EXCEPT !.pc = "getMyDetails"]
                          /\ n.contract # Null
                          /\ ops' = Replace(o, n)
           /\ \A o \in OpSet :
                (o.kind \in Refreshing /\ o.pc = "getMyDetails" /\ Consumed(o))
                    => /\ ops' = Drop(o)
                       /\ loading' = FALSE
                       /\ error' = error
                       /\ \A u \in Details(Get(o.contract).runner.address) :
                             loadUserAnswer(o, Some(u))
                                 => /\ user' # Null
                                    /\ Get(user').id = ToString(u.id)
                                    /\ Get(user').level = u.level
                                    /\ Get(user').balance = formatUnits(u.balance)
                       /\ user' # Null
                             => \E u \in Details(Get(o.contract).runner.address) :
                                   loadUserAnswer(o, Some(u))]_vars
\* an upgrade has been confirmed and its refresh is in flight
C22_Witness ==
    \E o \in OpSet : o.kind = "upgrade" /\ o.pc = "getMyDetails" /\ o.contract # Null
\* a refresh after a confirmed register has stored the record of a
\* registered user
C22_WitnessStored ==
    /\ user # Null /\ Get(user).level = 2 /\ ~loading
    /\ ops = EmptyOps

\* the step that consumed call o moved the run on to its next await
RunContinues(o) ==
    /\ \E n \in BagToSet(ops') :
          /\ n.kind = o.kind /\ n.pc # o.pc /\ n.contract = o.contract /\ n.signer = o.signer
          /\ ops' = Replace(o, n)
    /\ UNCHANGED <<account, contract, signer, user, loading, error>>
\* the step that consumed call o ended the run as a failure
RunFails(o) ==
    /\ ops' = Drop(o)
    /\ error' # Null /\ Get(error') # ""
    /\ loading' = FALSE
    /\ UNCHANGED <<account, contract, signer, user>>
\* the step that consumed call o ended the run as a success: an approval
\* was mined, or the refresh after a confirmation was answered
RunSucceeds(o) ==
    /\ \/ o.kind = "approve" /\ o.pc = "wait"
       \/ o.pc = "getMyDetails"
    /\ ops' = Drop(o)
    /\ loading' = FALSE
    /\ error' = error
    /\ UNCHANGED <<account, contract, signer>>
    /\ o.kind = "approve" => user' = user

\* C23: every answered step of approve, register, upgrade or withdraw
\* either moves the run on with the state untouched, ends it as a failure
\* (non-empty error, loading cleared, nothing further of the run in flight,
\* session and user record untouched) or ends it as a success; and when
\* register's own user-details query reports exists = true, which register
\* raises the already-registered error for, the run ends as a failure
C23_FailureSkipsRest ==
    [][(ops' # ops /\ ~PageDiscarded)
        => \A o \in OpSet :
              (o.kind \in Mutating /\ Consumed(o))
                  => /\ RunContinues(o) \/ RunFails(o) \/ RunSucceeds(o)
                     /\ (o.kind = "register" /\ o.pc = "existingUser")
                            => \A u \in Details(Get(o.contract).runner.address) :
                                  (u.exists /\ registerExistingAnswer(o, Some(u)))
                                      => RunFails(o)]_vars

\* the await a run of each kind first suspends at
FirstAwait(kind) ==
    IF kind = "connect" THEN "eth_requestAccounts"
    ELSE IF kind = "register" THEN "balanceOf"
    ELSE "send"

\* C24: a step that starts a run of connect, approve, register, upgrade or
\* withdraw (one more call is in flight after it) leaves the error slot
\* empty and loading set, whatever the slot held before, and the run is
\* suspended at its first await
C24_StartClearsError ==
    [][(ops' # ops /\ BagCardinality(ops') > BagCardinality(ops))
        => /\ error' = Null
           /\ loading' = TRUE
           /\ \E n \in BagToSet(ops') :
                 /\ Produced(n)
                 /\ n.kind \in Mutating \cup {"connect"}
                 /\ n.pc = FirstAwait(n.kind)
                 /\ ops' = Put(n)]_vars
\* the page stored the configuration error when it mounted, and a connect
\* run started since then has emptied the slot
C24_Witness ==
    /\ ~configOK /\ initPc = "done"
    /\ error = Null /\ loading
    /\ \E o \in OpSet : o.kind = "connect" /\ o.pc = FirstAwait("connect")
\* an approve run has started and the slot is empty
C24_WitnessApprove ==
    /\ error = Null /\ loading
    /\ \E o \in OpSet : o.kind = "approve" /\ o.pc = FirstAwait("approve")

\* C25: under the assumption that no awaited call stays pending forever,
\* whenever a run is in flight or loading is set, eventually no run is in
\* flight and loading is false
C25_ActionsComplete ==
    (ops # EmptyOps \/ loading) ~> (ops = EmptyOps /\ ~loading)
\* three runs have been started, the session is connected and every run
\* has completed
C25_Witness ==
    /\ account # Null /\ events >= 3
    /\ ops = EmptyOps /\ ~loading

\* the messages a rejected submission or confirmation of an approval leaves
ApproveFailureMessages ==
    {Some(MessageOr(e.message, ApproveFallbackMsg)) : e \in SendErrors \cup WaitErrors}

\* C26: approveUSDT called with no signer stores the not-connected error
\* and starts no call; no approval is ever in flight without a signer; an
\* approval whose submission or confirmation is rejected ends with the
\* failure's message and loading cleared; and an approve run ends without an
\* error only in the step that answers its confirmation, which it waits for
\* only after its submission resolved
C26_ApproveOutcomes ==
    [][(events' # events \/ ops' # ops) /\ ~PageDiscarded
        => /\ (events' # events /\ signer = Null /\ approveUSDT)
                => /\ ops' = ops
                   /\ error' = Some(NotConnectedMsg)
                   /\ loading' = FALSE
                   /\ UNCHANGED <<account, contract, signer, user>>
           /\ \A n \in BagToSet(ops') :
                n.kind = "approve"
                    => /\ n.signer # Null
                       /\ (n.pc = "wait" /\ Produced(n))
                            => \E o \in OpSet : o.pc = "send" /\ ops' = Replace(o, n)
           /\ \A o \in OpSet :
                (o.kind = "approve" /\ Consumed(o))
                    => \/ /\ o.pc = "send"
                          /\ ops' = Replace(o, [o EXCEPT !.pc = "wait"])
                          /\ UNCHANGED <<error, loading>>
                       \/ /\ ops' = Drop(o)
                          /\ error' \in ApproveFailureMessages
                          /\ loading' = FALSE
                       \/ /\ o.pc = "wait"
                          /\ ops' = Drop(o)
                          /\ error' = error
                          /\ loading' = FALSE]_vars
\* approveUSDT has been called without a session and has stored its error
C26_Witness ==
    /\ signer = Null /\ account = Null
    /\ error = Some(NotConnectedMsg) /\ ~loading
\* an approval is waiting for its confirmation
C26_WitnessWaiting ==
    \E o \in OpSet : o.kind = "approve" /\ o.pc = "wait"

\* C27: a call of checkUSDTStatus and every answer to one of its two
\* queries leave account, contract handle, signer, user record, loading and
\* error as they were; called without a signer or an account it starts no
\* query; and a status call in flight is at one of its two read-only
\* queries, never at a submission or a confirmation
C27_StatusIsPureQuery ==
    [][(events' # events \/ ops' # ops) /\ ~PageDiscarded
        => /\ (events' # events /\ checkUSDTStatus)
                => /\ UNCHANGED <<account, contract, signer, user, loading, error>>
                   /\ (signer = Null \/ account = Null) => ops' = ops
           /\ \A n \in BagToSet(ops') :
                n.kind = "status"
                    => /\ n.pc \in {"balanceOf", "allowance"}
                       /\ Produced(n) => UNCHANGED <<account, contract, signer, user, loading, error>>
           /\ \A o \in OpSet :
                (o.kind = "status" /\ Consumed(o))
                    => /\ UNCHANGED <<account, contract, signer, user, loading, error>>
                       /\ \/ ops' = Drop(o)
                          \/ o.pc = "balanceOf" /\ ops' = Replace(o, [o EXCEPT !.pc = "allowance"])]_vars
\* a status query is in flight beside an action's run: loading is set and
\* stays as the action left it
C27_Witness ==
    /\ loading
    /\ \E o \in OpSet : o.kind = "status" /\ o.pc = "allowance"
    /\ \E o \in OpSet : o.kind \in Mutating
\* the query has been called without a session
C27_WitnessNoSession ==
    /\ account = Null /\ signer = Null /\ events > 0
    /\ ops = EmptyOps /\ error = Null /\ ~loading

\* C28: register, upgrade or withdraw called while no contract handle is
\* set starts no call (nothing is queried, simulated or submitted), stores
\* the contract-not-initialized error, clears loading and leaves account,
\* contract, signer and user record as they were; and no run of these
\* actions is ever in flight without a contract handle
C28_NoContractRejected ==
    [][(events' # events \/ ops' # ops) /\ ~PageDiscarded
        => /\ (events' # events /\ contract = Null /\ (register \/ upgrade \/ withdraw))
                => /\ ops' = ops
                   /\ error' = Some(NoContractMsg)
                   /\ loading' = FALSE
                   /\ UNCHANGED <<account, contract, signer, user>>
           /\ \A n \in BagToSet(ops') :
                n.kind \in Refreshing => n.contract # Null]_vars
\* an action has been called without a contract handle and was rejected
C28_Witness ==
    /\ contract = Null /\ account = Null /\ user = Null
    /\ error = Some(NoContractMsg) /\ ~loading
    /\ ops = EmptyOps

\* twenty tokens, in tenths
TwentyTokens == 2 * TenTokens

\* C29: in the page with one user and no account changes, (1) a connect run
\* ends connected to its account with loading cleared and no error, the
\* user record absent when the user-details query is rejected (a new user);
\* (2) while a register run is in flight the session is connected, the user
\* record absent, loading set and the error slot empty; (3) with balance
\* and allowance of twenty tokens the pre-flight lets the run go on, with
\* the zero address a passed simulation is followed by the submission, and
\* a confirmation by the user-details query; (4) the answer of that query
\* becomes the user record, and the run ends with loading false, the error
\* slot empty and nothing in flight
C29_EndToEnd ==
    [][(ops' # ops /\ ~PageDiscarded)
        => /\ \A o \in OpSet :
                (o.kind = "connect" /\ o.pc = "getMyDetails" /\ Consumed(o))
                    => /\ ops' = EmptyOps
                       /\ account' = o.address /\ account' # Null
                       /\ contract' = o.contract /\ signer' = o.signer
                       /\ loading' = FALSE /\ error' = Null
                       /\ loadUserAnswer(o, Null) => user' = Null
           /\ \A o \in OpSet :
                o.kind = "register"
                    => /\ account # Null /\ contract = o.contract /\ contract # Null
                       /\ user = Null /\ loading /\ error = Null
                       /\ ops = SetToBag({o})
           /\ \A o \in OpSet :
                (o.kind = "register" /\ o.pc = "allowance" /\ o.balance = Some(TwentyTokens)
                   /\ registerPreflight(Drop(o), o, TwentyTokens, TwentyTokens))
                    => /\ ops' = SetToBag({[o EXCEPT !.pc = "existingUser", !.balance = Null]})
                       /\ UNCHANGED <<user, loading, error>>
           /\ \A o \in OpSet :
                (o.kind = "register" /\ o.pc = "staticCall" /\ o.referrer = Some(ZeroAddress)
                   /\ registerStaticAnswer(o, Null))
                    => /\ ops' = SetToBag({[o EXCEPT !.pc = "send"]})
                       /\ UNCHANGED <<user, loading, error>>
           /\ \A o \in OpSet :
                (o.kind = "register" /\ o.pc = "wait" /\ Consumed(o) /\ error' = Null)
                    => /\ ops' = SetToBag({[o EXCEPT !.pc = "getMyDetails"]})
                       /\ UNCHANGED <<user, loading, error>>
           /\ \A o \in OpSet :
                (o.kind = "register" /\ o.pc = "getMyDetails" /\ Consumed(o))
                    => /\ ops' = EmptyOps
                       /\ loading' = FALSE /\ error' = Null
                       /\ UNCHANGED <<account, contract, signer>>
                       /\ \A u \in Details(Get(o.contract).runner.address) :
                             loadUserAnswer(o, Some(u)) => user' = Some(UserRecord(u))]_vars
\* the run has come to its last call: connected with no user record, the
\* registration confirmed and the user-details query in flight
C29_Witness ==
    /\ configOK /\ walletAvailable
    /\ account # Null /\ user = Null /\ loading /\ error = Null
    /\ \E o \in OpSet : o.kind = "register" /\ o.pc = "getMyDetails"
\* the simulation of a registration with the zero address is in flight
C29_WitnessSimulation ==
    /\ account # Null /\ user = Null /\ loading /\ error = Null
    /\ \E o \in OpSet : o.kind = "register" /\ o.pc = "staticCall" /\ o.referrer = Some(ZeroAddress)
\* the pre-flight is about to be answered for a balance of twenty tokens
C29_WitnessBalance ==
    \E o \in OpSet : o.kind = "register" /\ o.pc = "allowance" /\ o.balance = Some(TwentyTokens)

\* the user records getMyDetails() can yield through a handle bound to addr
RecordsOf(addr) == {UserRecord(u) : u \in Details(addr)}

\* C30: with no call pending, a user record that is present beside an
\* account is one the contract returns for that account
C30_UserRecordOfCurrentAccount ==
    (ops = EmptyOps /\ user # Null /\ account # Null)
        => Get(user) \in RecordsOf(Get(account))

\* C31: with a valid configuration, while the listeners are registered and the wallet exposes no
\* account (its last notification carried an empty list and tore the
\* session down, and no connect run started since can get a signer), the
\* session is disconnected: a connect run that holds a signer from before
\* the teardown does not establish it
C31_TeardownHolds ==
    (configOK /\ listening /\ walletAccount = Null)
        => (account = Null /\ contract = Null /\ signer = Null)

\* C32: with a valid configuration, the listeners registered, the wallet exposing an account and
\* every run completed (each notification of an account change has been
\* handled to its end), a session account that is present is the account
\* the wallet exposes
C32_ReconnectReplacesAccount ==
    (configOK /\ listening /\ ops = EmptyOps /\ walletAccount # Null /\ account # Null)
        => account = walletAccount

\* C33: when register's own user-details query resolves with exists = true
\* the run ends there with the already-registered error: loading is
\* cleared and nothing of the run stays in flight (no prompt, no
\* simulation, no submission)
C33_AlreadyRegisteredAborts ==
    [][(ops' # ops /\ ~PageDiscarded)
        => \A o \in OpSet :
              (o.kind = "register" /\ o.pc = "existingUser")
                  => \A u \in Details(Get(o.contract).runner.address) :
                        (u.exists /\ registerExistingAnswer(o, Some(u)))
                            => /\ ops' = Drop(o)
                               /\ error' = Some(AlreadyRegisteredMsg)
                               /\ loading' = FALSE]_vars

\* C34: a register run moves past its token status query (to its
\* user-details check, and from there to the simulation) only in the step
\* that answers the allowance query of a run that holds a fetched balance,
\* both amounts being at least ten tokens
C34_SimulationNeedsStatus ==
    [][(ops' # ops /\ ~PageDiscarded)
        => \A n \in BagToSet(ops') :
              (n.kind = "register" /\ n.pc = "existingUser" /\ Produced(n))
                  => \E o \in OpSet :
                        /\ o.kind = "register" /\ o.pc = "allowance"
                        /\ ops' = Replace(o, n)
                        /\ o.balance # Null /\ Get(o.balance) >= TenTokens
                        /\ \E a \in Amounts :
                              a >= TenTokens /\ registerPreflight(Drop(o), o, Get(o.balance), a)]_vars

\* the wallet-unavailable errors of connectWallet
NoWalletMessages == {Some(NoWalletMobileMsg), Some(NoWalletDesktopMsg)}

\* C35: connectWallet called while window.ethereum is absent, whatever the
\* detector found earlier, stores the wallet-unavailable error, clears
\* loading, starts no provider request and leaves account, contract, signer
\* and user record as they were; and a connect run is started only with a
\* provider present
C35_ConnectRechecksProvider ==
    [][(events' # events \/ ops' # ops) /\ ~PageDiscarded
        => /\ (events' # events /\ ethereum = Null /\ ethereum' = Null
                 /\ \E dt \in {"mobile", "desktop"} : connectWalletStart(dt))
                => /\ ops' = ops
                   /\ error' \in NoWalletMessages
                   /\ loading' = FALSE
                   /\ UNCHANGED <<account, contract, signer, user>>
           /\ \A n \in BagToSet(ops') :
                (n.kind = "connect" /\ n.pc = "eth_requestAccounts" /\ Produced(n))
                    => ethereum # Null]_vars
\* the detector had found a provider, the provider is gone and a call of
\* connectWallet has stored the wallet-unavailable error
C35_Witness ==
    /\ walletAvailable /\ initPc = "done" /\ ethereum = Null
    /\ error \in NoWalletMessages /\ ~loading
    /\ account = Null /\ ops = EmptyOps

=============================================================================
